---- MODULE Spec2Model ----
(***************************************************************************)
(* CMDI record construction for Europeana full-text aggregations.          *)
(*                                                                         *)
(* Model of src/image/src/aggregation_cmdi_creation.py (the record and     *)
(* collection builders) and of the text helpers of                         *)
(* src/fulltext-aggregation/image/src/common.py.                           *)
(*                                                                         *)
(* Text that the code inspects character by character (identifiers, years) *)
(* is a sequence of one-character strings; text that is only copied or     *)
(* concatenated (titles, labels, URLs, file names) is a TLA+ string.       *)
(***************************************************************************)
EXTENDS Integers, Sequences, FiniteSets, TLC

VARIABLES
    template,   \* value of the shared template object passed to the builders
    loaded,     \* the template as make_template() loaded it
    records,    \* the records map of the title being processed (ordered dict)
    call,       \* arguments of the last build call
    outcome,    \* how the last build call ended
    cmdi_ref,   \* identity of the object the last build call worked on
    built,      \* number of build calls made
    handed,     \* identities of the documents returned to the caller, in order
    returned,   \* value returned by the last build call (a document or None)
    arg,        \* argument of the last call of a text helper
    ret         \* its return value

vars == <<template, loaded, records, call, outcome, cmdi_ref,
          built, handed, returned, arg, ret>>

(***************************************************************************)
(* Characters                                                              *)
(***************************************************************************)

\* Printable ASCII, code points 32..126, in code point order.  The grave accent
\* (code point 96) cannot be written in a TLA+ string and is named "U+0060".
Ascii ==
    << " ", "!", "\"", "#", "$", "%", "&", "'", "(", ")", "*", "+", ",", "-", ".", "/",
       "0", "1", "2", "3", "4", "5", "6", "7", "8", "9", ":", ";", "<", "=", ">", "?",
       "@", "A", "B", "C", "D", "E", "F", "G", "H", "I", "J", "K", "L", "M", "N", "O",
       "P", "Q", "R", "S", "T", "U", "V", "W", "X", "Y", "Z", "[", "\\", "]", "^", "_",
       "U+0060", "a", "b", "c", "d", "e", "f", "g", "h", "i", "j", "k", "l", "m", "n", "o",
       "p", "q", "r", "s", "t", "u", "v", "w", "x", "y", "z", "{", "|", "}", "~" >>

Chars == {Ascii[i] : i \in 1..Len(Ascii)}

OrdTable == [c \in Chars |-> 31 + (CHOOSE i \in 1..Len(Ascii) : Ascii[i] = c)]

\* Code point of a character.
Ord(c) == OrdTable[c]

\* A regular-expression range x-y is a range of code points.
InRange(c, lo, hi) == Ord(lo) <= Ord(c) /\ Ord(c) <= Ord(hi)

\* \d on the characters of the model (ASCII): 0-9.
IsDigit(c) == InRange(c, "0", "9")

\* The character class [A-z_] of xml_id's first pattern.
InClassAz_(c) == InRange(c, "A", "z") \/ c = "_"

\* The character class [A-z0-9_] that xml_id's second pattern negates.
InClassAz09_(c) == InRange(c, "A", "z") \/ InRange(c, "0", "9") \/ c = "_"

RECURSIVE Text(_)
\* The string a character sequence spells.
Text(s) == IF s = <<>> THEN "" ELSE s[1] \o Text(Tail(s))

Digits == <<"0", "1", "2", "3", "4", "5", "6", "7", "8", "9">>

RECURSIVE Decimal(_)
\* str(n) of a natural number, as f"{index}" formats it.
Decimal(n) ==
    IF n < 10 THEN <<Digits[n + 1]>>
    ELSE Decimal(n \div 10) \o <<Digits[(n % 10) + 1]>>

(***************************************************************************)
(* common.py: xml_id, normalize_identifier                                 *)
(***************************************************************************)

\* re.sub('[^A-z0-9_]', '_', s)
SubNonWord(s) == [i \in 1..Len(s) |-> IF InClassAz09_(s[i]) THEN s[i] ELSE "_"]

\* xml_id without the leading underscore for a non-letter first character.
xml_id_no_prefix(identifier) == SubNonWord(identifier)

xml_id(identifier) ==
    LET matches == Len(identifier) > 0 /\ InClassAz_(identifier[1])
        new_id  == IF ~matches THEN <<"_">> \o identifier ELSE identifier
    IN  SubNonWord(new_id)

\* Position of the last character that is not a digit, 0 if there is none.
LastNonDigit(s) ==
    LET nd == {k \in 1..Len(s) : ~IsDigit(s[k])}
    IN  IF nd = {} THEN 0 ELSE CHOOSE k \in nd : \A j \in nd : j <= k

\* re.search(r"http.*[^\d](\d+)$", identifier) succeeds: the string ends in a
\* digit run, the character before the run is at or after the end of some
\* "http".  (The greedy .* and the anchored \d+ leave one possible place for
\* [^\d]: the last non-digit of the string.)
NormalizeMatches(identifier) ==
    LET k == LastNonDigit(identifier)
    IN  /\ k >= 1
        /\ k < Len(identifier)
        /\ \E i \in 1..(k - 4) : SubSeq(identifier, i, i + 3) = <<"h", "t", "t", "p">>

\* normalize_identifier returning the match from its [^\d] character on.
normalize_identifier_keep_separator(identifier) ==
    IF NormalizeMatches(identifier)
    THEN SubSeq(identifier, LastNonDigit(identifier), Len(identifier))
    ELSE identifier

normalize_identifier(identifier) ==
    IF NormalizeMatches(identifier)
    THEN SubSeq(identifier, LastNonDigit(identifier) + 1, Len(identifier))
    ELSE identifier

(***************************************************************************)
(* Python containers                                                       *)
(***************************************************************************)

\* None, and Optional values: <<>> is None, <<v>> is the value v.
None == <<>>

\* dict.get(key, None) on a dict written as a record.
Get(d, key) == IF key \in DOMAIN d THEN <<d[key]>> ELSE None

Range(s) == {s[i] : i \in 1..Len(s)}

\* An ordered dict is a sequence of [key, value] items with distinct keys.
Keys(d) == [i \in 1..Len(d) |-> d[i].key]

HasKey(d, k) == \E i \in 1..Len(d) : d[i].key = k

Lookup(d, k) == d[CHOOSE i \in 1..Len(d) : d[i].key = k].value

RECURSIVE Flatten(_)
\* glom.flatten: one level of nesting removed.
Flatten(ss) == IF ss = <<>> THEN <<>> ELSE Head(ss) \o Flatten(Tail(ss))

RECURSIVE Unique(_)
\* list(dict.fromkeys(values)): first occurrences, in order.
Unique(values) ==
    IF values = <<>> THEN <<>>
    ELSE LET front == Unique(SubSeq(values, 1, Len(values) - 1))
             last  == values[Len(values)]
         IN  IF last \in Range(front) THEN front ELSE Append(front, last)

\* Python's str ordering: by code point, a proper prefix first.
StrLess(a, b) ==
    \E i \in 1..(Len(a) + 1) :
        /\ \A j \in 1..(i - 1) : j <= Len(b) /\ a[j] = b[j]
        /\ \/ i = Len(a) + 1 /\ Len(b) >= i
           \/ i <= Len(a) /\ i <= Len(b) /\ Ord(a[i]) < Ord(b[i])

RECURSIVE Insert(_, _)
Insert(sorted, x) ==
    IF sorted = <<>> THEN <<x>>
    ELSE IF StrLess(x, Head(sorted)) THEN <<x>> \o sorted
    ELSE <<Head(sorted)>> \o Insert(Tail(sorted), x)

RECURSIVE Sorted(_)
\* sorted(keys) of distinct strings.
Sorted(keys) ==
    IF keys = <<>> THEN <<>>
    ELSE Insert(Sorted(SubSeq(keys, 1, Len(keys) - 1)), keys[Len(keys)])

(***************************************************************************)
(* Configuration and module constants of aggregation_cmdi_creation.py      *)
(***************************************************************************)

LANDING_PAGE_ID == "landing_page"
EDM_DUMP_PROXY_ID == "archive_edm"
ALTO_DUMP_PROXY_ID == "archive_alto"
DUMP_MEDIA_TYPE == "application/zip"

\* Values of the env module (read from the process environment).
COLLECTION_DISPLAY_NAME == "Europeana newspapers full text"
LANDING_PAGE_URL == "https://pro.europeana.eu/page/iiif"
CMDI_RECORDS_BASE_URL == "https://records.example/cmdi"

\* os.path.basename(__file__)
ScriptName == "aggregation_cmdi_creation.py"

\* date.today().strftime("%Y-%m-%d") on the day of the run.
today_string == "2021-11-05"

make_edm_dump_ref(collection_id) ==
    "ftp://download.europeana.eu/newspapers/fulltext/edm_issue/" \o collection_id \o ".zip"

make_alto_dump_ref(collection_id) ==
    "ftp://download.europeana.eu/newspapers/fulltext/alto/" \o collection_id \o ".zip"

\* make_ref_xml_id counting the references of an identifier from 0.
make_ref_xml_id_from_zero(record_id, index) ==
    Text(xml_id(record_id \o <<"_", "a", "n", "n", "o">> \o Decimal(index - 1)))

make_ref_xml_id(record_id, index) ==
    Text(xml_id(record_id \o <<"_", "a", "n", "n", "o">> \o Decimal(index)))

\* re.match(r"(^\d{4})-\d{2}-\d{2}$", date) is not None
is_valid_date(date) ==
    /\ Len(date) = 10
    /\ \A i \in {1, 2, 3, 4, 6, 7, 9, 10} : IsDigit(date[i])
    /\ date[5] = "-" /\ date[8] = "-"

(***************************************************************************)
(* The environment of a run: metadata files, the IIIF manifest service,    *)
(* the ISO 639 table                                                       *)
(***************************************************************************)

\* An element of an EDM document: its tag and its text (or rdf:resource).
El(tag, text) == [tag |-> tag, text |-> text]

\* An EDM document: the children, in document order, of its ore:Proxy,
\* ore:Aggregation and edm:EuropeanaAggregation elements.
EdmGazette ==
    [ proxy |-> << El("dc:identifier", <<"h", "t", "t", "p", ":", "/", "/", "d", "/", "1", "2", "3">>),
                   El("dc:title", "Example Gazette"),
                   El("dc:type", "newspaper"),
                   El("dc:language", "en"),
                   El("dcterms:issued", <<"1", "9", "2", "0", "-", "0", "5", "-", "0", "3">>) >>,
      aggregation |-> << El("edm:provider", "Europeana Newspapers"),
                         El("edm:dataProvider", "National Library"),
                         El("edm:rights", "http://rightsstatements.org/vocab/NoC-OKLR/1.0/") >>,
      europeana |-> << El("edm:country", "Poland"),
                       El("edm:landingPage", "https://www.europeana.eu/item/123") >> ]

EdmCourier ==
    [ proxy |-> << El("dc:identifier", <<"h", "t", "t", "p", ":", "/", "/", "b", "/", "4", "5">>),
                   El("dc:title", "Courier"),
                   El("dc:title", "Kurier"),
                   El("dc:type", "newspaper"),
                   El("dc:type", "text"),
                   El("dc:language", "xx"),
                   El("dc:language", "deu"),
                   El("dcterms:issued", <<"1", "9", "2", "1", "-", "5", "-", "3">>),
                   El("dcterms:issued", <<"1", "9", "2", "1", "-", "0", "6", "-", "0", "1">>) >>,
      aggregation |-> << El("edm:dataProvider", "National Library"),
                         El("edm:provider", "The European Library"),
                         El("edm:dataProvider", "State Archive"),
                         El("edm:rights", "http://rightsstatements.org/vocab/NoC-OKLR/1.0/"),
                         El("edm:rights", "http://creativecommons.org/publicdomain/mark/1.0/") >>,
      europeana |-> << El("edm:country", "Germany"),
                       El("edm:landingPage", "https://www.europeana.eu/item/45"),
                       El("edm:landingPage", "https://www.europeana.eu/item/45b") >> ]

EdmPlain ==
    [ proxy |-> << El("dc:identifier", <<"8">>),
                   El("dc:identifier", <<"h", "t", "t", "p", ":", "/", "/", "a", "_", "4", "5">>),
                   El("dc:language", "english") >>,
      aggregation |-> << >>,
      europeana |-> << El("edm:landingPage", "https://www.europeana.eu/item/8") >> ]

\* The metadata directory: a file that parses holds a document, a file that
\* does not parse makes etree.parse raise etree.XMLSyntaxError, and a name
\* that is no file of the directory makes it raise OSError.
MetadataDir ==
    [ name \in {"gazette.xml", "courier.xml", "plain.xml", "broken.xml"} |->
        CASE name = "gazette.xml" -> <<EdmGazette>>
          [] name = "courier.xml" -> <<EdmCourier>>
          [] name = "plain.xml"   -> <<EdmPlain>>
          [] OTHER                -> << >> ]

\* retrieve_iiif_annotations.retrieve_annotation_refs(url, session): the
\* (ref, label) pairs of a manifest; an entry is None when a page has no
\* annotation.
retrieve_annotation_refs(url) ==
    CASE url = "https://iiif.example/m1" ->
            << <<"http://img/1.jpg", "page 1">> >>
      [] url = "https://iiif.example/m2" ->
            << <<"http://img/2.jpg", "page 1">>, None, <<"http://img/3.jpg", "page 2">> >>
      [] url = "https://iiif.example/none" ->
            << None >>
      [] OTHER -> << >>

\* iso639.languages: name and part3 code by alpha2 / by part3 code.
Iso639 ==
    << [alpha2 |-> "en", part3 |-> "eng", name |-> "English"],
       [alpha2 |-> "de", part3 |-> "deu", name |-> "German"],
       [alpha2 |-> "pl", part3 |-> "pol", name |-> "Polish"] >>

\* languages.get(alpha2=code) / languages.get(part3=code): the entry, or
\* None where the library raises KeyError.
languages_get(field, code) ==
    LET hits == {i \in 1..Len(Iso639) : Iso639[i][field] = code}
    IN  IF hits = {} THEN None ELSE <<Iso639[CHOOSE i \in hits : TRUE]>>

(***************************************************************************)
(* CMDI documents                                                          *)
(*                                                                         *)
(* A document is what the builders' XPath queries see of the tree: the     *)
(* four header elements (None when absent, else their text), the number of *)
(* cmd:ResourceProxyList elements and the ResourceProxy children of the    *)
(* first, the number of cmdp:TextResource and cmdp_c:MetadataCollection    *)
(* component roots and the children of the first root.                     *)
(***************************************************************************)

HeaderNames == {"MdCreator", "MdCreationDate", "MdSelfLink", "MdCollectionDisplayName"}

CMDP_NS_RECORD == "cmdp"
CMDP_NS_COLLECTION_RECORD == "cmdp_c"

\* An outcome of a step that can raise: the exception (None if none) and the
\* document as the step left it.
Done(doc) == [exc |-> None, doc |-> doc]
Raised(exception, doc) == [exc |-> <<exception>>, doc |-> doc]

set_metadata_headers(doc, collection_id, record_file_name) ==
    LET Set(d, name, text) ==
            IF d.hdr[name] # None THEN [d EXCEPT !.hdr[name] = <<text>>] ELSE d
        d1 == Set(doc, "MdCreator", ScriptName)
        d2 == Set(d1, "MdCreationDate", today_string)
        selflink == CMDI_RECORDS_BASE_URL \o "/" \o collection_id \o "/" \o record_file_name
    IN  IF d2.hdr["MdCreationDate"] # None
        THEN \* selflink_header[0] is evaluated under creation_date_header's guard
             IF d2.hdr["MdSelfLink"] = None
             THEN Raised("IndexError", d2)
             ELSE Done(Set([d2 EXCEPT !.hdr["MdSelfLink"] = <<selflink>>],
                           "MdCollectionDisplayName", COLLECTION_DISPLAY_NAME))
        ELSE Done(Set(d2, "MdCollectionDisplayName", COLLECTION_DISPLAY_NAME))

\* insert_resource_proxy on the document's ResourceProxyList.
insert_resource_proxy(doc, proxy_id, resource_type, ref, media_type) ==
    [doc EXCEPT !.proxies =
        Append(@, [id |-> proxy_id, type |-> resource_type, ref |-> ref,
                   mimetype |-> media_type])]

NotNone(x) == x # None

HasRefs(item) == Len(item.value) > 0

\* The labeled references of one records-map entry.
url_labeled_refs(entry) ==
    LET manifest_urls == Get(entry, "manifest_urls")
    IN  IF manifest_urls = None THEN <<>>
        ELSE LET urls == manifest_urls[1]
                 refs == [i \in 1..Len(urls) |-> retrieve_annotation_refs(urls[i])]
             IN  SelectSeq(Flatten(refs), NotNone)

\* retrieve_iiif_annotation_refs that also records identifiers without references.
retrieve_iiif_annotation_refs_keep_empty(recs) ==
    [i \in 1..Len(recs) |-> [key |-> recs[i].key, value |-> url_labeled_refs(recs[i].value)]]

retrieve_iiif_annotation_refs(recs) ==
    SelectSeq([i \in 1..Len(recs) |->
                  [key |-> recs[i].key, value |-> url_labeled_refs(recs[i].value)]],
              HasRefs)

RECURSIVE insert_annotation_proxies(_, _, _, _)
\* The loop of insert_resource_proxies over labeled_refs, from item i, reference j.
insert_annotation_proxies(doc, labeled_refs, i, j) ==
    IF i > Len(labeled_refs) THEN doc
    ELSE IF j > Len(labeled_refs[i].value)
    THEN insert_annotation_proxies(doc, labeled_refs, i + 1, 1)
    ELSE insert_annotation_proxies(
            insert_resource_proxy(doc, make_ref_xml_id(labeled_refs[i].key, j), "Resource",
                                  labeled_refs[i].value[j][1], None),
            labeled_refs, i, j + 1)

\* The landing page and dump proxies both builders insert first.
insert_fixed_proxies(doc, collection_id) ==
    LET d1 == insert_resource_proxy(doc, LANDING_PAGE_ID, "LandingPage", LANDING_PAGE_URL, None)
        d2 == insert_resource_proxy(d1, EDM_DUMP_PROXY_ID, "Resource",
                                    make_edm_dump_ref(collection_id), <<DUMP_MEDIA_TYPE>>)
    IN  insert_resource_proxy(d2, ALTO_DUMP_PROXY_ID, "Resource",
                              make_alto_dump_ref(collection_id), <<DUMP_MEDIA_TYPE>>)

insert_resource_proxies(doc, collection_id, labeled_refs) ==
    insert_annotation_proxies(insert_fixed_proxies(doc, collection_id), labeled_refs, 1, 1)

\* load_emd_records: the parsed documents, or OSError from etree.parse.
load_emd_records(records_map, metadata_dir) ==
    LET file_name(i) == Get(records_map[i].value, "file")
        Missing(i) == file_name(i) # None /\ file_name(i)[1] \notin DOMAIN metadata_dir
        Parsed(i) == IF file_name(i) = None THEN <<>> ELSE metadata_dir[file_name(i)[1]]
    IN  IF \E i \in 1..Len(records_map) : Missing(i)
        THEN [exc |-> <<"OSError">>, edm_records |-> <<>>]
        ELSE [exc |-> None,
              edm_records |-> Flatten([i \in 1..Len(records_map) |-> Parsed(i)])]

(***************************************************************************)
(* Component content shared by both builders                               *)
(***************************************************************************)

\* xpath(doc, path) on an EDM document: the texts, in document order, of the
\* children of one section whose tag is among those the path names.
xpath(doc, section, tags) ==
    LET Named(e) == e.tag \in tags
        hits == SelectSeq(doc[section], Named)
    IN  [i \in 1..Len(hits) |-> hits[i].text]

get_all_xpath_values(docs, section, tags) ==
    Flatten([i \in 1..Len(docs) |-> xpath(docs[i], section, tags)])

\* get_unique_xpath_values that keeps the last occurrence of a value.
get_unique_xpath_values_last(docs, section, tags) ==
    LET values == get_all_xpath_values(docs, section, tags)
        Reverse(q) == [i \in 1..Len(q) |-> q[Len(q) + 1 - i]]
    IN  Reverse(Unique(Reverse(values)))

get_unique_xpath_values(docs, section, tags) ==
    Unique(get_all_xpath_values(docs, section, tags))

insert_keywords(parent, edm_records, namespace) ==
    LET keywords == get_unique_xpath_values(edm_records, "proxy", {"dc:type"})
    IN  parent \o [i \in 1..Len(keywords) |->
                      [ns |-> namespace, tag |-> "Keyword", label |-> keywords[i]]]

insert_publisher(parent, edm_records, namespace) ==
    LET publishers == get_unique_xpath_values(edm_records, "aggregation",
                                              {"edm:dataProvider", "edm:provider"})
    IN  parent \o [i \in 1..Len(publishers) |->
                      [ns |-> namespace, tag |-> "Publisher", name |-> publishers[i]]]

\* create_language_component without the lookup of 3-letter codes.
create_language_component_alpha2_only(language_code, namespace) ==
    LET language ==
            IF Len(language_code) = 2 THEN languages_get("alpha2", language_code)
            ELSE None
    IN  IF language = None
        THEN [ns |-> namespace, tag |-> "Language", name |-> language_code, code |-> None]
        ELSE [ns |-> namespace, tag |-> "Language", name |-> language[1].name,
              code |-> <<language[1].part3>>]

create_language_component(language_code, namespace) ==
    LET language ==
            IF Len(language_code) = 2 THEN languages_get("alpha2", language_code)
            ELSE IF Len(language_code) = 3 THEN languages_get("part3", language_code)
            ELSE None
    IN  IF language = None
        THEN [ns |-> namespace, tag |-> "Language", name |-> language_code, code |-> None]
        ELSE [ns |-> namespace, tag |-> "Language", name |-> language[1].name,
              code |-> <<language[1].part3>>]

insert_languages(parent, edm_records, namespace) ==
    LET language_codes == get_unique_xpath_values(edm_records, "proxy", {"dc:language"})
    IN  parent \o [i \in 1..Len(language_codes) |->
                      create_language_component(language_codes[i], namespace)]

insert_countries(parent, edm_records, namespace) ==
    LET countries == get_unique_xpath_values(edm_records, "europeana", {"edm:country"})
    IN  parent \o [i \in 1..Len(countries) |->
                      [ns |-> namespace, tag |-> "GeoLocation", label |-> countries[i],
                       country |-> countries[i]]]

insert_licences(parent, edm_records, namespace) ==
    LET rights_urls == get_unique_xpath_values(edm_records, "aggregation", {"edm:rights"})
    IN  IF Len(rights_urls) > 0
        THEN Append(parent,
                [ns |-> namespace, tag |-> "AccessInfo",
                 licences |-> [i \in 1..Len(rights_urls) |->
                                  [identifier |-> rights_urls[i], label |-> rights_urls[i],
                                   url |-> rights_urls[i]]]])
        ELSE parent

insert_dump_subresource_info(parent, namespace) ==
    parent \o
    << [ns |-> namespace, tag |-> "Subresource", ref |-> EDM_DUMP_PROXY_ID,
        labels |-> <<"Archive containing full text content in EDM format which includes this title">>,
        coverage |-> <<>>],
       [ns |-> namespace, tag |-> "Subresource", ref |-> ALTO_DUMP_PROXY_ID,
        labels |-> <<"Archive containing full text content in ALTO format which includes this title">>,
        coverage |-> <<>>] >>

insert_metadata_info(parent) ==
    Append(parent, [ns |-> "", tag |-> "MetadataInfo", date |-> today_string])

(***************************************************************************)
(* Record builder                                                          *)
(***************************************************************************)

insert_title_and_description(parent, title, year) ==
    parent \o
    << [ns |-> CMDP_NS_RECORD, tag |-> "TitleInfo", title |-> title \o " - " \o year],
       [ns |-> CMDP_NS_RECORD, tag |-> "Description",
        description |-> "Full text content aggregated from Europeana. Title: \""
                        \o title \o "\". Year: " \o year \o "."],
       [ns |-> CMDP_NS_RECORD, tag |-> "ResourceType", label |-> "Text"] >>

insert_temporal_coverage(parent, year) ==
    Append(parent, [ns |-> CMDP_NS_RECORD, tag |-> "TemporalCoverage", label |-> year,
                    start |-> year, end |-> year])

insert_annotation_subresource_info(parent, record, identifier, normalized_id, labeled_ref, index, namespace) ==
    LET titles == get_unique_xpath_values(<<record>>, "proxy", {"dc:title"})
        issued == SelectSeq(get_unique_xpath_values(<<record>>, "proxy", {"dcterms:issued"}),
                            is_valid_date)
    IN  Append(parent,
            [ns |-> namespace, tag |-> "Subresource",
             ref |-> make_ref_xml_id(normalized_id, index),
             labels |-> [i \in 1..Len(titles) |-> titles[i] \o " - " \o labeled_ref[2]],
             coverage |-> [i \in 1..Len(issued) |-> Text(issued[i])]])

RECURSIVE insert_annotation_subresources(_, _, _, _, _, _)
\* The loops of insert_subresource_info: record r, its identifier i, the
\* identifier's labeled reference j.
insert_annotation_subresources(parent, edm_records, labeled_refs_dict, r, i, j) ==
    IF r > Len(edm_records) THEN parent
    ELSE
    LET record == edm_records[r]
        identifiers == get_unique_xpath_values(<<record>>, "proxy", {"dc:identifier"})
    IN  IF i > Len(identifiers)
        THEN insert_annotation_subresources(parent, edm_records, labeled_refs_dict, r + 1, 1, 1)
        ELSE
        LET identifier == identifiers[i]
            normalized_id == normalize_identifier(identifier)
            labeled_refs == IF HasKey(labeled_refs_dict, normalized_id)
                            THEN Lookup(labeled_refs_dict, normalized_id) ELSE <<>>
        IN  IF j > Len(labeled_refs)
            THEN insert_annotation_subresources(parent, edm_records, labeled_refs_dict,
                                                r, i + 1, 1)
            ELSE insert_annotation_subresources(
                    insert_annotation_subresource_info(parent, record, identifier,
                        normalized_id, labeled_refs[j], j, CMDP_NS_RECORD),
                    edm_records, labeled_refs_dict, r, i, j + 1)

insert_subresource_info(parent, edm_records, labeled_refs_dict) ==
    insert_annotation_subresources(insert_dump_subresource_info(parent, CMDP_NS_RECORD),
                                   edm_records, labeled_refs_dict, 1, 1, 1)

\* The related resources of one record: one per landing page, labeled with
\* every title, when the record has a title.
related_resources(record, namespace) ==
    LET landing_pages == xpath(record, "europeana", {"edm:landingPage"})
        titles == xpath(record, "proxy", {"dc:title"})
    IN  IF Len(titles) > 0
        THEN [p \in 1..Len(landing_pages) |->
                [ns |-> namespace, tag |-> "RelatedResource",
                 labels |-> [t \in 1..Len(titles) |->
                                "Landing page for '" \o titles[t] \o "'"],
                 location |-> landing_pages[p]]]
        ELSE <<>>

insert_related_resources(parent, edm_records, namespace) ==
    parent \o Flatten([r \in 1..Len(edm_records) |->
                          related_resources(edm_records[r], namespace)])

insert_component_content(doc, title, year, edm_records, labeled_refs) ==
    LET c1 == insert_title_and_description(doc.components, title, year)
        c2 == insert_keywords(c1, edm_records, CMDP_NS_RECORD)
        c3 == insert_publisher(c2, edm_records, CMDP_NS_RECORD)
        c4 == insert_languages(c3, edm_records, CMDP_NS_RECORD)
        c5 == insert_temporal_coverage(c4, year)
        c6 == insert_countries(c5, edm_records, CMDP_NS_RECORD)
        c7 == insert_licences(c6, edm_records, CMDP_NS_RECORD)
        c8 == insert_subresource_info(c7, edm_records, labeled_refs)
        c9 == insert_related_resources(c8, edm_records, CMDP_NS_RECORD)
    IN  [doc EXCEPT !.components = insert_metadata_info(c9)]

\* How a build call ends: "document" (the copy is returned), "None", or the
\* exception it raises; and the working copy as the call left it.
Ended(how, copy) == [outcome |-> how, copy |-> copy]

\* make_cmdi_record on cmdi_file, the deep copy of the template.
make_cmdi_record(record_file_name, cmdi_file, collection_id, title, year, recs, metadata_dir) ==
    LET labeled_refs == retrieve_iiif_annotation_refs(recs)
        headers == set_metadata_headers(cmdi_file, collection_id, record_file_name)
        proxied == insert_resource_proxies(headers.doc, collection_id, labeled_refs)
        emd == load_emd_records(recs, metadata_dir)
    IN  IF Len(labeled_refs) = 0 THEN Ended("None", cmdi_file)
        ELSE IF headers.exc # None THEN Ended(headers.exc[1], headers.doc)
        ELSE IF headers.doc.nProxyLists # 1 THEN Ended("None", headers.doc)
        ELSE IF proxied.nTextResource # 1 THEN Ended("None", proxied)
        ELSE IF emd.exc # None THEN Ended(emd.exc[1], proxied)
        ELSE Ended("document",
                   insert_component_content(proxied, title, year, emd.edm_records, labeled_refs))

(***************************************************************************)
(* Collection builder                                                      *)
(***************************************************************************)

RECURSIVE Join(_)
\* ', '.join(years)
Join(years) ==
    IF years = <<>> THEN ""
    ELSE IF Len(years) = 1 THEN Text(years[1])
    ELSE Text(years[1]) \o ", " \o Join(Tail(years))

RECURSIVE insert_year_proxies(_, _, _, _)
\* The loop of collection_insert_resource_proxies over the remaining years.
insert_year_proxies(doc, years, year_files, collection_id) ==
    IF years = <<>> THEN doc
    ELSE LET year == Head(years)
             file_name == Lookup(year_files, year)
             ref == CMDI_RECORDS_BASE_URL \o "/" \o collection_id \o "/" \o file_name
         IN  insert_year_proxies(
                insert_resource_proxy(doc, Text(xml_id(year)), "Metadata", ref, None),
                Tail(years), year_files, collection_id)

\* collection_insert_resource_proxies iterating the years as the dict holds them.
collection_insert_resource_proxies_unsorted(doc, year_files, collection_id) ==
    insert_year_proxies(insert_fixed_proxies(doc, collection_id),
                        Keys(year_files), year_files, collection_id)

collection_insert_resource_proxies(doc, year_files, collection_id) ==
    insert_year_proxies(insert_fixed_proxies(doc, collection_id),
                        Sorted(Keys(year_files)), year_files, collection_id)

collection_insert_title_and_description(parent, title, years) ==
    parent \o
    << [ns |-> CMDP_NS_COLLECTION_RECORD, tag |-> "TitleInfo", title |-> title],
       [ns |-> CMDP_NS_COLLECTION_RECORD, tag |-> "Description",
        description |-> "Full text content aggregated from Europeana. Title: \""
                        \o title \o "\". Years: " \o Join(years) \o "."],
       [ns |-> CMDP_NS_COLLECTION_RECORD, tag |-> "ResourceType", label |-> "Text"] >>

collection_insert_temporal_coverage(parent, year_lower, year_higher) ==
    Append(parent, [ns |-> CMDP_NS_COLLECTION_RECORD, tag |-> "TemporalCoverage",
                    label |-> Text(year_lower) \o " - " \o Text(year_higher),
                    start |-> Text(year_lower), end |-> Text(year_higher)])

\* collection_insert_subresource_info referring to the year itself.
collection_insert_subresource_info_raw_year(parent, title, year_files) ==
    LET years == Sorted(Keys(year_files))
    IN  insert_dump_subresource_info(parent, CMDP_NS_COLLECTION_RECORD)
        \o [i \in 1..Len(years) |->
               [ns |-> CMDP_NS_COLLECTION_RECORD, tag |-> "Subresource",
                ref |-> Text(years[i]),
                labels |-> <<title \o " - " \o Text(years[i])>>,
                coverage |-> <<Text(years[i])>>]]

collection_insert_subresource_info(parent, title, year_files) ==
    LET years == Sorted(Keys(year_files))
    IN  insert_dump_subresource_info(parent, CMDP_NS_COLLECTION_RECORD)
        \o [i \in 1..Len(years) |->
               [ns |-> CMDP_NS_COLLECTION_RECORD, tag |-> "Subresource",
                ref |-> Text(xml_id(years[i])),
                labels |-> <<title \o " - " \o Text(years[i])>>,
                coverage |-> <<Text(years[i])>>]]

\* collection_insert_component_content; sorted_years[0] raises IndexError on
\* an empty list, after the title, keywords, publishers and languages.
collection_insert_component_content(doc, title, sorted_years, year_files, input_records) ==
    LET c1 == collection_insert_title_and_description(doc.components, title, sorted_years)
        c2 == insert_keywords(c1, input_records, CMDP_NS_COLLECTION_RECORD)
        c3 == insert_publisher(c2, input_records, CMDP_NS_COLLECTION_RECORD)
        c4 == insert_languages(c3, input_records, CMDP_NS_COLLECTION_RECORD)
        c5 == collection_insert_temporal_coverage(c4, sorted_years[1],
                                                  sorted_years[Len(sorted_years)])
        c6 == insert_countries(c5, input_records, CMDP_NS_COLLECTION_RECORD)
        c7 == insert_licences(c6, input_records, CMDP_NS_COLLECTION_RECORD)
        c8 == collection_insert_subresource_info(c7, title, year_files)
    IN  IF Len(sorted_years) = 0
        THEN Raised("IndexError", [doc EXCEPT !.components = c4])
        ELSE Done([doc EXCEPT !.components = insert_metadata_info(c8)])

\* make_collection_record on cmdi_file, the deep copy of the template.
make_collection_record(file_name, cmdi_file, collection_id, title, year_files, input_record_map, metadata_dir) ==
    LET headers == set_metadata_headers(cmdi_file, collection_id, file_name)
        proxied == collection_insert_resource_proxies(headers.doc, year_files, collection_id)
        emd == load_emd_records(input_record_map, metadata_dir)
        content == collection_insert_component_content(
                        proxied, title, Sorted(Keys(year_files)), year_files, emd.edm_records)
    IN  IF headers.exc # None THEN Ended(headers.exc[1], headers.doc)
        ELSE IF headers.doc.nProxyLists # 1 THEN Ended("None", headers.doc)
        ELSE IF proxied.nMetadataCollection # 1 THEN Ended("None", proxied)
        ELSE IF emd.exc # None THEN Ended(emd.exc[1], proxied)
        ELSE IF content.exc # None THEN Ended(content.exc[1], content.doc)
        ELSE Ended("document", content.doc)

(***************************************************************************)
(* Inputs                                                                  *)
(***************************************************************************)

MaxRecords == 2    \* entries of a records map
MaxYears == 2      \* entries of a year-to-file map

\* Sequences of at most n elements of S with distinct keys.
OrderedDicts(S, n) ==
    {d \in UNION {[1..k -> S] : k \in 0..n} :
        \A i, j \in 1..Len(d) : d[i].key = d[j].key => i = j}

Item(key, value) == [key |-> key, value |-> value]

RecordItems ==
    { Item(<<"1", "2", "3">>,
           [file |-> "gazette.xml", manifest_urls |-> <<"https://iiif.example/m1">>]),
      Item(<<"h", "t", "t", "p", ":", "/", "/", "a", "/", "4", "5">>,
           [file |-> "courier.xml",
            manifest_urls |-> <<"https://iiif.example/m0", "https://iiif.example/m2">>]),
      Item(<<"h", "t", "t", "p", ":", "/", "/", "a", "_", "4", "5">>,
           [manifest_urls |-> <<"https://iiif.example/m1">>]),
      Item(<<"7">>,
           [file |-> "broken.xml"]),
      Item(<<"8">>,
           [file |-> "plain.xml", manifest_urls |-> <<>>]),
      Item(<<"9">>,
           [file |-> "gone.xml",
            manifest_urls |-> <<"https://iiif.example/m0", "https://iiif.example/none">>]) }

RecordsMaps == OrderedDicts(RecordItems, MaxRecords)

YearItems ==
    { Item(<<"1", "9", "2", "0">>, "f1920.xml"),
      Item(<<"1", "9", "2", "1">>, "f1921.xml"),
      Item(<<"1", "8", "9", "9">>, "f1899.xml") }

YearMaps == OrderedDicts(YearItems, MaxYears)

Titles == {"Example Gazette"}
RecordYears == {"1920"}
CollectionId == "9200396"
RecordFileName == "Example_Gazette_1920.xml"
CollectionFileName == "Example_Gazette_collection.xml"

\* How many elements of a kind a template holds: none, one, several.
Counts == {0, 1, 2}

\* The documents make_template() can load: any of the header elements, any
\* number of resource proxy lists, and component roots of one profile.
Templates ==
    { t \in [ hdr : [HeaderNames -> {None, <<"">>}],
              nProxyLists : Counts,
              proxies : {<<>>},
              nTextResource : Counts,
              nMetadataCollection : Counts,
              components : {<<>>} ] :
        t.nTextResource = 0 \/ t.nMetadataCollection = 0 }

(***************************************************************************)
(* The builders as operations on the shared template                       *)
(***************************************************************************)

\* Identity of the template object.
TemplateRef == <<"template">>

\* A build that works on the template itself instead of a copy.
deepcopy_same_object(obj, n) == obj

\* deepcopy(obj): a new object, equal in value; n tells the objects that
\* successive calls allocate apart.
deepcopy(obj, n) == <<"deepcopy", n>>

NoCall == [op |-> "none", title |-> "", year |-> "", year_files |-> <<>>]

\* The state after the templates are loaded and before any call.
Loaded(records_maps) ==
    /\ template \in Templates
    /\ loaded = template
    /\ records \in records_maps
    /\ call = NoCall
    /\ outcome = "none"
    /\ cmdi_ref = TemplateRef
    /\ built = 0
    /\ handed = <<>>
    /\ returned = None
    /\ arg = <<>>
    /\ ret = <<>>

\* One call of a builder: it works on the object deepcopy gives it, and
\* the caller receives that object when the call ends with a document.
Build(this_call, ended, ref) ==
    /\ call' = this_call
    /\ cmdi_ref' = ref
    /\ built' = built + 1
    /\ outcome' = ended.outcome
    /\ returned' = IF ended.outcome = "document" THEN <<ended.copy>> ELSE None
    /\ handed' = IF ended.outcome = "document" THEN Append(handed, ref) ELSE handed
    /\ template' = IF ref = TemplateRef THEN ended.copy ELSE template
    /\ UNCHANGED <<loaded, records, arg, ret>>

MakeCmdiRecord ==
    \E title \in Titles, year \in RecordYears :
        Build([op |-> "make_cmdi_record", title |-> title, year |-> year,
               year_files |-> <<>>],
              make_cmdi_record(RecordFileName, template, CollectionId, title, year,
                               records, MetadataDir),
              deepcopy(TemplateRef, built + 1))

MakeCollectionRecord(year_maps) ==
    \E title \in Titles, year_files \in year_maps :
        Build([op |-> "make_collection_record", title |-> title, year |-> "",
               year_files |-> year_files],
              make_collection_record(CollectionFileName, template, CollectionId, title,
                                     year_files, records, MetadataDir),
              deepcopy(TemplateRef, built + 1))

(***************************************************************************)
(* Spec: one build call, on every template and every input.                *)
(***************************************************************************)

Init == Loaded(RecordsMaps)

Next ==
    \/ built = 0 /\ MakeCmdiRecord
    \/ built = 0 /\ MakeCollectionRecord(YearMaps)

Spec == Init /\ [][Next]_vars

(***************************************************************************)
(* SpecRun: a run of several build calls from the same template.           *)
(***************************************************************************)

MaxBuilds == 2       \* build calls of a run
MaxRunRecords == 1   \* entries of the records map of a run
MaxRunYears == 1     \* entries of the year-to-file maps of a run

RunInit == Loaded(OrderedDicts(RecordItems, MaxRunRecords))

RunNext ==
    \/ built < MaxBuilds /\ MakeCmdiRecord
    \/ built < MaxBuilds /\ MakeCollectionRecord(OrderedDicts(YearItems, MaxRunYears))

SpecRun == RunInit /\ [][RunNext]_vars

(***************************************************************************)
(* SpecXmlId: xml_id applied to every short string of an alphabet that     *)
(* holds a character of each kind its patterns tell apart.                 *)
(***************************************************************************)

MaxLen == 3    \* length of the strings xml_id is applied to

XmlIdAlphabet == {"a", "Z", "7", "_", "[", "^", "U+0060", "-", "{"}

Strings(alphabet, n) == UNION {[1..k -> alphabet] : k \in 0..n}

\* The state before a helper is called on arg.
Idle(args) ==
    /\ template = [hdr |-> [n \in HeaderNames |-> <<"">>], nProxyLists |-> 1,
                   proxies |-> <<>>, nTextResource |-> 1, nMetadataCollection |-> 0,
                   components |-> <<>>]
    /\ loaded = template
    /\ records = <<>>
    /\ call = NoCall
    /\ outcome = "none"
    /\ cmdi_ref = TemplateRef
    /\ built = 0
    /\ handed = <<>>
    /\ returned = None
    /\ arg \in args
    /\ ret = <<>>

\* A call of a helper on arg.
Apply(op, value) ==
    /\ call = NoCall
    /\ call' = [NoCall EXCEPT !.op = op]
    /\ ret' = value
    /\ UNCHANGED <<template, loaded, records, outcome, cmdi_ref, built, handed,
                   returned, arg>>

XmlIdInit == Idle(Strings(XmlIdAlphabet, MaxLen))

XmlId == Apply("xml_id", xml_id(arg))

SpecXmlId == XmlIdInit /\ [][XmlId]_vars

(***************************************************************************)
(* SpecHeaders: set_metadata_headers applied to a copy of every template.  *)
(***************************************************************************)

HeadersInit == Loaded({<<>>})

SetMetadataHeaders ==
    Apply("set_metadata_headers",
          set_metadata_headers(template, CollectionId, RecordFileName))

SpecHeaders == HeadersInit /\ [][SetMetadataHeaders]_vars

(***************************************************************************)
(* SpecNormalize: normalize_identifier applied to every short string of an *)
(* alphabet that spells "http", a separator and two digits, and to every   *)
(* such string after "http" or after a character and "http"; then applied  *)
(* to its own result.                                                      *)
(***************************************************************************)

MaxIdLen == 3    \* length of the part of an identifier that varies

IdAlphabet == {"h", "t", "p", "/", "7", "8"}

Identifiers ==
    Strings(IdAlphabet, MaxIdLen)
    \cup {x \o <<"h", "t", "t", "p">> \o y :
            x \in Strings(IdAlphabet, 1), y \in Strings(IdAlphabet, MaxIdLen)}

NormalizeInit == Idle(Identifiers)

NormalizeIdentifier == Apply("normalize_identifier", normalize_identifier(arg))

\* normalize_identifier(ret), ret being the result of the first call; the
\* second result is kept in returned.
NormalizeIdentifierAgain ==
    /\ call.op = "normalize_identifier"
    /\ call' = [call EXCEPT !.op = "normalize_identifier again"]
    /\ returned' = <<normalize_identifier(ret)>>
    /\ UNCHANGED <<template, loaded, records, outcome, cmdi_ref, built, handed, arg, ret>>

NormalizeNext == NormalizeIdentifier \/ NormalizeIdentifierAgain

SpecNormalize == NormalizeInit /\ [][NormalizeNext]_vars

(***************************************************************************)
(* SpecLoad: load_emd_records applied to every records map.                *)
(***************************************************************************)

MaxLoadRecords == 3    \* entries of a records map that is loaded

LoadInit == Idle(OrderedDicts(RecordItems, MaxLoadRecords))

LoadEmdRecords == Apply("load_emd_records", load_emd_records(arg, MetadataDir))

SpecLoad == LoadInit /\ [][LoadEmdRecords]_vars

(***************************************************************************)
(* SpecUnique: get_unique_xpath_values applied to every short sequence of  *)
(* small documents, with the query for the titles.                         *)
(***************************************************************************)

MaxDocs == 2      \* documents of a sequence
MaxValues == 2    \* elements of a document

SmallElements == {El("dc:title", "a"), El("dc:title", "b"), El("dc:type", "a")}

SmallDocuments ==
    {[proxy |-> p, aggregation |-> <<>>, europeana |-> <<>>] :
        p \in Strings(SmallElements, MaxValues)}

UniqueInit == Idle(Strings(SmallDocuments, MaxDocs))

GetUniqueXpathValues ==
    Apply("get_unique_xpath_values", get_unique_xpath_values(arg, "proxy", {"dc:title"}))

SpecUnique == UniqueInit /\ [][GetUniqueXpathValues]_vars

(***************************************************************************)
(* SpecLanguage: create_language_component applied to every short code     *)
(* over the letters of "en", "eng", "de", "deu" and "xx".                  *)
(***************************************************************************)

MaxCodeLen == 3    \* length of a language code

CodeLetters == {"e", "n", "g", "d", "u", "x"}

RECURSIVE Codes(_)
\* The codes of length n.
Codes(n) == IF n = 0 THEN {""} ELSE {c \o l : c \in Codes(n - 1), l \in CodeLetters}

LanguageInit == Idle(UNION {Codes(n) : n \in 0..MaxCodeLen})

CreateLanguageComponent ==
    Apply("create_language_component", create_language_component(arg, CMDP_NS_RECORD))

SpecLanguage == LanguageInit /\ [][CreateLanguageComponent]_vars

(***************************************************************************)
(* Properties                                                              *)
(***************************************************************************)

IsRecordBuild == call.op = "make_cmdi_record"
IsCollectionBuild == call.op = "make_collection_record"

\* The document the last call returned.
Doc == returned[1]

\* No reference can be resolved for any identifier of a records map: the
\* entry has no manifest URLs, or an empty list of them, or every URL
\* resolves to nothing or to None entries only.
NothingResolves(recs) ==
    \A i \in 1..Len(recs) :
        "manifest_urls" \in DOMAIN recs[i].value =>
            \A u \in Range(recs[i].value.manifest_urls) :
                \A r \in Range(retrieve_annotation_refs(u)) : r = None

IsAnnotationSubresource(e) ==
    e.tag = "Subresource" /\ e.ref \notin {EDM_DUMP_PROXY_ID, ALTO_DUMP_PROXY_ID}

\* The Subresource elements of a record document after the two dump ones.
AnnotationSubresources(d) == SelectSeq(d.components, IsAnnotationSubresource)

\* C1: a record build whose records map resolves to no labeled reference
\* returns None, whatever the template and the metadata.
C1_NoReferencesNoDocument ==
    (IsRecordBuild /\ NothingResolves(records)) => (outcome = "None" /\ returned = None)

\* C1 happens: a well-formed template, an identifier without manifest URLs
\* and one whose manifest URLs resolve to nothing, and the build returned None.
C1_Witness ==
    /\ IsRecordBuild /\ NothingResolves(records) /\ Len(records) = 2
    /\ \E i \in 1..Len(records) : "manifest_urls" \notin DOMAIN records[i].value
    /\ \E i \in 1..Len(records) :
          /\ "manifest_urls" \in DOMAIN records[i].value
          /\ records[i].value.manifest_urls # <<>>
    /\ loaded.nProxyLists = 1 /\ loaded.nTextResource = 1
    /\ outcome = "None"

\* The record build of the example: the records map holds the one identifier
\* "123", whose manifest resolves to the one reference ("http://img/1.jpg",
\* "page 1") and whose metadata document has the title "Example Gazette"
\* and an identifier that normalizes to "123".
C2_Example ==
    /\ IsRecordBuild /\ outcome = "document"
    /\ call.title = "Example Gazette" /\ call.year = "1920"
    /\ Keys(records) = << <<"1", "2", "3">> >>
    /\ url_labeled_refs(records[1].value) = << <<"http://img/1.jpg", "page 1">> >>
    /\ LET docs == load_emd_records(records, MetadataDir).edm_records
       IN  /\ Len(docs) = 1
           /\ xpath(docs[1], "proxy", {"dc:title"}) = <<"Example Gazette">>
           /\ \A t \in Range(xpath(docs[1], "proxy", {"dc:identifier"})) :
                 normalize_identifier(t) = <<"1", "2", "3">>

\* The example's document has three fixed proxies and one annotation proxy
\* with the given id, and one annotation Subresource, which refers to that
\* id and is labeled "Example Gazette - page 1".
ExampleDocument(anno_id) ==
    /\ Len(Doc.proxies) = 4
    /\ [i \in 1..3 |-> Doc.proxies[i].id]
          = <<LANDING_PAGE_ID, EDM_DUMP_PROXY_ID, ALTO_DUMP_PROXY_ID>>
    /\ Doc.proxies[4].id = anno_id
    /\ LET subs == AnnotationSubresources(Doc)
       IN  /\ Len(subs) = 1
           /\ subs[1].ref = anno_id
           /\ subs[1].labels = <<"Example Gazette - page 1">>

\* C2 as stated: in the example the annotation proxy and the Subresource
\* reference have the id "123_anno1".
C2_AnnotationIdAsStated == C2_Example => ExampleDocument("123_anno1")

\* C2 amended: in the example the annotation proxy and the Subresource
\* reference have the id "_123_anno1" (xml_id prefixes the leading digit).
C2_AnnotationIdPrefixed == C2_Example => ExampleDocument("_123_anno1")

\* C2 happens: the example was built.
C2_Witness == C2_Example /\ Len(Doc.proxies) = 4

IsLetter(c) == InRange(c, "A", "Z") \/ InRange(c, "a", "z")

\* s matches ^[A-Za-z_][A-Za-z0-9_]*$
IsXmlName(s) ==
    /\ Len(s) >= 1
    /\ IsLetter(s[1]) \/ s[1] = "_"
    /\ \A i \in 1..Len(s) : IsLetter(s[i]) \/ IsDigit(s[i]) \/ s[i] = "_"

\* C3: xml_id returns a string that starts with a letter or an underscore
\* and holds only letters, digits and underscores.
C3_XmlIdIsXmlName == call.op = "xml_id" => IsXmlName(ret)

\* C4: no two ResourceProxy entries of a returned document have the same id.
C4_ProxyIdsUnique ==
    outcome = "document" =>
        \A i, j \in 1..Len(Doc.proxies) : Doc.proxies[i].id = Doc.proxies[j].id => i = j

\* C5: when an identifier of the records map and a dc:identifier of a
\* metadata document have the same normalized form, the record document
\* holds an annotation Subresource for every labeled reference of that
\* identifier, labeled with the document's titles.
C5_JoinedOnNormalizedIdentifier ==
    (IsRecordBuild /\ outcome = "document") =>
        LET docs == load_emd_records(records, MetadataDir).edm_records
            subs == AnnotationSubresources(Doc)
        IN  \A i \in 1..Len(records), d \in 1..Len(docs) :
                \A t \in Range(xpath(docs[d], "proxy", {"dc:identifier"})) :
                    normalize_identifier(records[i].key) = normalize_identifier(t) =>
                        LET refs == url_labeled_refs(records[i].value)
                            titles == Unique(xpath(docs[d], "proxy", {"dc:title"}))
                        IN  \A j \in 1..Len(refs) :
                                \E k \in 1..Len(subs) :
                                    subs[k].labels =
                                        [n \in 1..Len(titles) |->
                                            titles[n] \o " - " \o refs[j][2]]

\* The text set_metadata_headers gives a header element.
HeaderText(name) ==
    CASE name = "MdCreator" -> ScriptName
      [] name = "MdCreationDate" -> today_string
      [] name = "MdSelfLink" ->
            CMDI_RECORDS_BASE_URL \o "/" \o CollectionId \o "/" \o RecordFileName
      [] OTHER -> COLLECTION_DISPLAY_NAME

\* C6: set_metadata_headers raises nothing, populates every header element
\* the template holds and creates none that it lacks.
C6_HeadersPopulatedIffPresent ==
    call.op = "set_metadata_headers" =>
        /\ ret.exc = None
        /\ \A h \in HeaderNames :
              ret.doc.hdr[h] = IF loaded.hdr[h] = None THEN None ELSE <<HeaderText(h)>>

\* The template has not exactly one ResourceProxyList, or not exactly one
\* components root of the profile the last call builds.
ShapeViolated ==
    \/ loaded.nProxyLists # 1
    \/ IsRecordBuild /\ loaded.nTextResource # 1
    \/ IsCollectionBuild /\ loaded.nMetadataCollection # 1

\* C7: a build from a template whose shape is violated returns None.
C7_ShapeViolationReturnsNone ==
    ((IsRecordBuild \/ IsCollectionBuild) /\ ShapeViolated) =>
        (outcome = "None" /\ returned = None)

\* C8: the shared template stays as loaded through every build call, and
\* the documents returned are objects other than the template and than
\* each other.
C8_TemplateUntouched ==
    /\ template = loaded
    /\ \A i \in 1..Len(handed) : handed[i] # TemplateRef
    /\ \A i, j \in 1..Len(handed) : handed[i] = handed[j] => i = j

\* C8 happens: two calls from the same template each returned a document
\* that was populated.
C8_Witness ==
    /\ built >= 2 /\ Len(handed) >= 2
    /\ outcome = "document" /\ Doc.proxies # <<>> /\ Doc.components # <<>>

RECURSIVE Number(_)
\* int(year) of a digit string.
Number(s) ==
    IF s = <<>> THEN 0
    ELSE 10 * Number(SubSeq(s, 1, Len(s) - 1)) + (Ord(s[Len(s)]) - Ord("0"))

\* The years of a year-to-file map by ascending number.
AscendingYears(year_files) ==
    [i \in 1..Len(year_files) |->
        CHOOSE y \in Range(Keys(year_files)) :
            Cardinality({z \in Range(Keys(year_files)) : Number(z) < Number(y)}) = i - 1]

IsTemporalCoverage(e) == e.tag = "TemporalCoverage"

\* C9: a collection document holds, after the three fixed proxies, one
\* Metadata proxy per year by ascending year, with id xml_id(year) and ref
\* {base URL}/{collection id}/{file of the year}, and one TemporalCoverage
\* from the least to the greatest year.
C9_YearProxiesAscending ==
    (IsCollectionBuild /\ outcome = "document") =>
        LET years == AscendingYears(call.year_files)
            coverage == SelectSeq(Doc.components, IsTemporalCoverage)
        IN  /\ Len(Doc.proxies) = 3 + Len(years)
            /\ [i \in 1..3 |-> Doc.proxies[i].id]
                  = <<LANDING_PAGE_ID, EDM_DUMP_PROXY_ID, ALTO_DUMP_PROXY_ID>>
            /\ \A i \in 1..Len(years) :
                  Doc.proxies[3 + i] =
                      [id |-> Text(xml_id(years[i])), type |-> "Metadata",
                       ref |-> CMDI_RECORDS_BASE_URL \o "/" \o CollectionId \o "/"
                               \o Lookup(call.year_files, years[i]),
                       mimetype |-> None]
            /\ Len(coverage) = 1
            /\ coverage[1].start = Text(years[1])
            /\ coverage[1].end = Text(years[Len(years)])

\* C9 happens: a collection document was built from a year-to-file map
\* that lists a later year before an earlier one.
C9_Witness ==
    /\ IsCollectionBuild /\ outcome = "document"
    /\ Len(call.year_files) = 2
    /\ Number(call.year_files[1].key) > Number(call.year_files[2].key)

\* C10: from a template with one ResourceProxyList, one MetadataCollection
\* root and all header elements, and with every metadata file of the
\* records map in place, a collection build returns a document for every
\* year-to-file map and every records map.
C10_CollectionAlwaysBuilds ==
    ( /\ IsCollectionBuild
      /\ loaded.nProxyLists = 1 /\ loaded.nMetadataCollection = 1
      /\ \A h \in HeaderNames : loaded.hdr[h] # None
      /\ load_emd_records(records, MetadataDir).exc = None )
    => outcome = "document"

\* The pattern http.*[^\d](\d+)$ matches s with "http" at i and [^\d] at k.
MatchesAt(s, i, k) ==
    /\ i >= 1 /\ i + 3 <= Len(s)
    /\ s[i] = "h" /\ s[i + 1] = "t" /\ s[i + 2] = "t" /\ s[i + 3] = "p"
    /\ k >= i + 4 /\ k < Len(s)
    /\ ~IsDigit(s[k])
    /\ \A j \in (k + 1)..Len(s) : IsDigit(s[j])

RECURSIVE TrailingDigitRun(_)
\* The longest suffix of s made of digits.
TrailingDigitRun(s) ==
    IF s = <<>> \/ ~IsDigit(s[Len(s)]) THEN <<>>
    ELSE Append(TrailingDigitRun(SubSeq(s, 1, Len(s) - 1)), s[Len(s)])

\* C11: normalize_identifier returns the trailing digit run of an identifier
\* its pattern matches and the identifier itself otherwise, and applied to
\* its own result it returns that result.
C11_NormalizeIdempotent ==
    /\ call.op \in {"normalize_identifier", "normalize_identifier again"} =>
          IF \E i, k \in 1..Len(arg) : MatchesAt(arg, i, k)
          THEN ret = TrailingDigitRun(arg) /\ ret # <<>>
          ELSE ret = arg
    /\ call.op = "normalize_identifier again" => returned = <<ret>>

\* C11 happens: an identifier was normalized to a digit run shorter than
\* itself, and the run was normalized again.
C11_Witness ==
    /\ call.op = "normalize_identifier again"
    /\ ret # arg /\ ret # <<>>
    /\ returned = <<ret>>

\* The entry of a records map names a file that is in the metadata directory
\* and parses.
Loads(entry) ==
    /\ "file" \in DOMAIN entry.value
    /\ entry.value.file \in DOMAIN MetadataDir
    /\ MetadataDir[entry.value.file] # <<>>

\* The document of an entry that loads.
DocumentOf(entry) == MetadataDir[entry.value.file][1]

\* C12: load_emd_records raises nothing and returns the documents of the
\* entries that load, in the order of the records map; an entry without a
\* file name, or whose file cannot be read or parsed, is left out.
C12_LoadFailuresContained ==
    call.op = "load_emd_records" =>
        LET loading == SelectSeq(arg, Loads)
        IN  /\ ret.exc = None
            /\ ret.edm_records = [i \in 1..Len(loading) |-> DocumentOf(loading[i])]

IsPublisher(e) == e.tag = "Publisher"

\* C13: the Publisher elements of a returned document name the distinct
\* dataProvider values of the metadata documents first and then the distinct
\* provider values not named yet.
C13_DataProvidersFirst ==
    outcome = "document" =>
        LET docs == load_emd_records(records, MetadataDir).edm_records
            publishers == SelectSeq(Doc.components, IsPublisher)
            expected == Unique(get_all_xpath_values(docs, "aggregation", {"edm:dataProvider"})
                               \o get_all_xpath_values(docs, "aggregation", {"edm:provider"}))
        IN  [i \in 1..Len(publishers) |-> publishers[i].name] = expected

\* The place of the first occurrence of v in values.
FirstOccurrence(values, v) ==
    CHOOSE i \in 1..Len(values) : values[i] = v /\ \A j \in 1..(i - 1) : values[j] # v

\* C14: get_unique_xpath_values returns every value of the concatenated
\* query results of the documents once, by first occurrence there.
C14_UniqueByFirstOccurrence ==
    call.op = "get_unique_xpath_values" =>
        LET values == Flatten([d \in 1..Len(arg) |-> xpath(arg[d], "proxy", {"dc:title"})])
        IN  /\ Range(ret) = Range(values)
            /\ \A i, j \in 1..Len(ret) : ret[i] = ret[j] => i = j
            /\ \A i, j \in 1..Len(ret) :
                  i < j => FirstOccurrence(values, ret[i]) < FirstOccurrence(values, ret[j])

\* C14 happens: two documents hold two values between them, one of them
\* again after the other, and the result has each once.
C14_Witness ==
    /\ call.op = "get_unique_xpath_values"
    /\ Len(arg) = 2 /\ Len(ret) = 2
    /\ LET values == Flatten([d \in 1..Len(arg) |-> xpath(arg[d], "proxy", {"dc:title"})])
       IN  Len(values) > 2 /\ values[Len(values)] = values[1]

\* The entries of the language table with the given 2-letter or 3-letter code.
LanguagesOf(code) ==
    {e \in Range(Iso639) : (Len(code) = 2 /\ e.alpha2 = code) \/ (Len(code) = 3 /\ e.part3 = code)}

\* C15: create_language_component makes one Language element; for a
\* 2-letter or 3-letter code the table knows it has the language's name and
\* its 3-letter code ("en" gives "English" and "eng"); for any other code it
\* has the code as name and no code child ("xx" gives "xx").
C15_LanguageLookup ==
    call.op = "create_language_component" =>
        /\ ret.tag = "Language"
        /\ IF LanguagesOf(arg) # {}
           THEN \E e \in LanguagesOf(arg) : ret.name = e.name /\ ret.code = <<e.part3>>
           ELSE ret.name = arg /\ ret.code = None
        /\ arg = "en" => (ret.name = "English" /\ ret.code = <<"eng">>)
        /\ arg = "xx" => (ret.name = "xx" /\ ret.code = None)

\* C15 happens: a 3-letter code was looked up and found.
C15_Witness ==
    /\ call.op = "create_language_component"
    /\ arg = "deu" /\ ret.name = "German" /\ ret.code = <<"deu">>

\* The three proxies every document starts with.
FixedProxies ==
    << [id |-> LANDING_PAGE_ID, type |-> "LandingPage", ref |-> LANDING_PAGE_URL,
        mimetype |-> None],
       [id |-> EDM_DUMP_PROXY_ID, type |-> "Resource",
        ref |-> make_edm_dump_ref(CollectionId), mimetype |-> <<DUMP_MEDIA_TYPE>>],
       [id |-> ALTO_DUMP_PROXY_ID, type |-> "Resource",
        ref |-> make_alto_dump_ref(CollectionId), mimetype |-> <<DUMP_MEDIA_TYPE>>] >>

\* The annotation proxies of one entry of the records map: one per
\* reference that is not None, numbered from 1.
AnnotationProxiesOf(entry) ==
    LET urls == IF "manifest_urls" \in DOMAIN entry.value
                THEN entry.value.manifest_urls ELSE <<>>
        refs == SelectSeq(Flatten([u \in 1..Len(urls) |-> retrieve_annotation_refs(urls[u])]),
                          NotNone)
    IN  [j \in 1..Len(refs) |->
            [id |-> Text(xml_id(entry.key \o <<"_", "a", "n", "n", "o">> \o Decimal(j))),
             type |-> "Resource", ref |-> refs[j][1], mimetype |-> None]]

\* C16: the proxies of a record document are the landing page, the EDM dump
\* and the ALTO dump, and then one Resource proxy per labeled reference, by
\* identifier in the order of the records map and by reference in the order
\* of its list, with id xml_id("{identifier}_anno{i}"), i from 1.
C16_RecordProxiesInOrder ==
    (IsRecordBuild /\ outcome = "document") =>
        Doc.proxies =
            FixedProxies \o Flatten([i \in 1..Len(records) |-> AnnotationProxiesOf(records[i])])

\* C16 happens: a record document was built from an identifier without
\* references and one with references from two manifests, a None among them.
C16_Witness ==
    /\ IsRecordBuild /\ outcome = "document"
    /\ Len(records) = 2
    /\ AnnotationProxiesOf(records[1]) = <<>>
    /\ "manifest_urls" \in DOMAIN records[2].value
    /\ Len(records[2].value.manifest_urls) = 2
    /\ None \in Range(retrieve_annotation_refs(records[2].value.manifest_urls[2]))
    /\ Len(Doc.proxies) = 5

IsSubresource(e) == e.tag = "Subresource"

\* C17: in a returned document the reference of every Subresource is the id
\* of a ResourceProxy of the document.
C17_SubresourcesReferToProxies ==
    outcome = "document" =>
        LET subs == SelectSeq(Doc.components, IsSubresource)
        IN  \A k \in 1..Len(subs) :
                \E p \in 1..Len(Doc.proxies) : Doc.proxies[p].id = subs[k].ref

\* C17 happens: a record document with an annotation Subresource besides
\* the two dump ones, from a records map of two identifiers.
C17_Witness ==
    /\ IsRecordBuild /\ outcome = "document"
    /\ Len(records) = 2
    /\ Len(AnnotationSubresources(Doc)) >= 1
    /\ Len(SelectSeq(Doc.components, IsSubresource)) >= 3

====
